---- MODULE Spec2Model ----
(***************************************************************************)
(* Grover search demo (src/python.py): oracle, diffuser, grover_search and *)
(* the __main__ block.                                                     *)
(*                                                                         *)
(* A circuit is the ordered list of gates the code appends.  The backend   *)
(* is modelled by exact statevector simulation: an amplitude vector is     *)
(* kept as integers v with a common exponent k, the amplitude of basis     *)
(* state s being v[s] / sqrt(2)^k.  Basis state s holds qubit q in bit q   *)
(* of s (qubit 0 is the least significant bit).                            *)
(***************************************************************************)
EXTENDS Integers, Sequences, FiniteSets, TLC

VARIABLES pc, number_to_find, n_qubits, qc, iter, psi, counts, shots_done,
          out, amp0, applied

vars == <<pc, number_to_find, n_qubits, qc, iter, psi, counts, shots_done,
          out, amp0, applied>>

(* ------------------------------ bounds --------------------------------- *)

\* register sizes explored: MinN..MaxN (mcx needs at least one control)
MinN == 2
MaxN == 3
\* inputs explored reach MaxOver below 0 and MaxOver above 2^N - 1
MaxOver == 8
\* shots the backend is asked for, scaled down from the 1024 of line 46
Shots == 3
\* entries of the integer amplitude vectors tried lie in -MaxAmp..MaxAmp
MaxAmp == 1

(* ------------------------- program constants --------------------------- *)

\* n_qubits = 3 in __main__
NQubits == 3

(* --------------------------- small helpers ----------------------------- *)

Bit(s, q) == (s \div (2^q)) % 2

FlipBit(s, q) == IF Bit(s, q) = 0 THEN s + 2^q ELSE s - 2^q

States(n) == 0..(2^n - 1)

MinOf(S) == CHOOSE m \in S : \A x \in S : m <= x

RECURSIVE Ascending(_)
Ascending(S) ==
    IF S = {} THEN <<>>
    ELSE LET m == MinOf(S) IN <<m>> \o Ascending(S \ {m})

RECURSIVE SumOver(_, _)
SumOver(f, S) ==
    IF S = {} THEN 0
    ELSE LET x == CHOOSE y \in S : TRUE IN f[x] + SumOver(f, S \ {x})

(* ------------------------------- gates --------------------------------- *)

H(q) == [op |-> "h", q |-> q, ctrl |-> {}, c |-> -1]

X(q) == [op |-> "x", q |-> q, ctrl |-> {}, c |-> -1]

MCX(ctrl, q) == [op |-> "mcx", q |-> q, ctrl |-> ctrl, c |-> -1]

Measure(q, c) == [op |-> "measure", q |-> q, ctrl |-> {}, c |-> c]

\* circuit.h(qubits) / circuit.x(qubits) with qubits = range(n): one gate
\* per position, in order
HAll(n) == [i \in 1..n |-> H(i - 1)]

XAll(n) == [i \in 1..n |-> X(i - 1)]

MeasureAll(n) == [i \in 1..n |-> Measure(i - 1, i - 1)]

\* variant: one classical slot too many
QuantumCircuit_ExtraClbit(nq, nc) == [nq |-> nq, nc |-> nc + 1, data |-> <<>>]

\* QuantumCircuit(n_qubits, n_qubits)
QuantumCircuit(nq, nc) == [nq |-> nq, nc |-> nc, data |-> <<>>]

AppendGates(circ, gates) == [circ EXCEPT !.data = @ \o gates]

(* ---------------------- exact amplitude arithmetic --------------------- *)

NoState == [v |-> <<>>, k |-> 0]

AllEven(v) == \A s \in DOMAIN v : v[s] % 2 = 0

\* canonical form of v / sqrt(2)^k: divide by 2 = sqrt(2)^2 while possible
RECURSIVE Reduce(_)
Reduce(a) ==
    IF a.k >= 2 /\ AllEven(a.v)
    THEN Reduce([v |-> [s \in DOMAIN a.v |-> a.v[s] \div 2], k |-> a.k - 2])
    ELSE a

Ket0(n) == [v |-> [s \in States(n) |-> IF s = 0 THEN 1 ELSE 0], k |-> 0]

ApplyGate(g, a) ==
    CASE g.op = "x" ->
           [v |-> [s \in DOMAIN a.v |-> a.v[FlipBit(s, g.q)]], k |-> a.k]
      [] g.op = "h" ->
           Reduce([v |-> [s \in DOMAIN a.v |->
                            IF Bit(s, g.q) = 0
                            THEN a.v[s] + a.v[FlipBit(s, g.q)]
                            ELSE a.v[FlipBit(s, g.q)] - a.v[s]],
                   k |-> a.k + 1])
      [] g.op = "mcx" ->
           [v |-> [s \in DOMAIN a.v |->
                     IF \A cq \in g.ctrl : Bit(s, cq) = 1
                     THEN a.v[FlipBit(s, g.q)]
                     ELSE a.v[s]],
            k |-> a.k]
      [] OTHER -> a

\* the gates applied in order; the exponent test makes each intermediate
\* vector be computed before the next gate is applied
RECURSIVE Run(_, _)
Run(gates, a) ==
    IF gates = <<>> \/ a.k < 0 THEN a
    ELSE Run(Tail(gates), ApplyGate(Head(gates), a))

(* ------------------------------ oracle --------------------------------- *)

RECURSIVE Digits(_)
Digits(m) ==
    IF m < 2 THEN << IF m = 1 THEN "1" ELSE "0" >>
    ELSE Append(Digits(m \div 2), IF m % 2 = 1 THEN "1" ELSE "0")

Zeros(w) == IF w <= 0 THEN <<>> ELSE [i \in 1..w |-> "0"]

\* variant: format(number_to_find, 'b'), no zero padding
binary_string_NoPad(t, n) ==
    (IF t < 0 THEN << "-" >> ELSE <<>>) \o Digits(IF t < 0 THEN -t ELSE t)

\* format(number_to_find, '0' + str(len(qubits)) + 'b'): sign, then zero
\* padding up to the width, then the binary digits of the magnitude
binary_string(t, n) ==
    LET sign == IF t < 0 THEN << "-" >> ELSE <<>>
        digs == Digits(IF t < 0 THEN -t ELSE t)
    IN  sign \o Zeros(n - Len(sign) - Len(digs)) \o digs

\* positions (0-based) at which enumerate(binary_string) meets a '0'
ZeroPositions(bs) == {i \in 0..(Len(bs) - 1) : bs[i + 1] = "0"}

\* one "for qubit, bit in enumerate(binary_string)" loop over qubits =
\* range(n): qubits[i] raises IndexError at the first '0' position i >= n,
\* after the flips before it were appended
FlipLoop(bs, n) ==
    LET bad == {i \in ZeroPositions(bs) : i >= n}
        lim == IF bad = {} THEN Len(bs) ELSE MinOf(bad)
        pos == Ascending({i \in ZeroPositions(bs) : i < lim})
    IN  [gates |-> [j \in 1..Len(pos) |-> X(pos[j])], raised |-> bad # {}]

\* variant: the two Hadamards around the multi-controlled NOT left out
PhaseFlip_NoH(n) == << MCX(0..(n - 2), n - 1) >>

\* h(qubits[-1]); mcx(qubits[:-1], qubits[-1]); h(qubits[-1])
PhaseFlip(n) == << H(n - 1), MCX(0..(n - 2), n - 1), H(n - 1) >>

\* variant: the second flip loop (lines 14-16) left out
oracle_NoUndo(t, n) ==
    LET first == FlipLoop(binary_string(t, n), n)
    IN  IF first.raised THEN first
        ELSE [gates |-> first.gates \o PhaseFlip(n), raised |-> FALSE]

\* variant: an encoding wider than the register is rejected before any flip
oracle_Guarded(t, n) ==
    LET bs == binary_string(t, n)
        first == FlipLoop(bs, n)
    IN  IF Len(bs) > n THEN [gates |-> <<>>, raised |-> TRUE]
        ELSE [gates |-> first.gates \o PhaseFlip(n) \o first.gates,
              raised |-> FALSE]

oracle(t, n) ==
    LET bs == binary_string(t, n)
        first == FlipLoop(bs, n)
    IN  IF first.raised THEN first
        ELSE [gates |-> first.gates \o PhaseFlip(n) \o FlipLoop(bs, n).gates,
              raised |-> FALSE]

(* ------------------------------ diffuser ------------------------------- *)

\* variant: the two circuit.x(qubits) layers left out
diffuser_NoX(n) == HAll(n) \o PhaseFlip(n) \o HAll(n)

\* variant: the closing circuit.h(qubits) left out
diffuser_NoFinalH(n) == HAll(n) \o XAll(n) \o PhaseFlip(n) \o XAll(n)

diffuser(n) == HAll(n) \o XAll(n) \o PhaseFlip(n) \o XAll(n) \o HAll(n)

(* ---------------------------- grover_search ---------------------------- *)

\* int(math.sqrt(x))
IntSqrt(x) == CHOOSE r \in 0..x : r * r <= x /\ (r + 1) * (r + 1) > x

\* variant: round(math.sqrt(2**n)), nearest instead of truncated
num_iterations_Rounded(n) ==
    LET r == IntSqrt(2^n)
    IN  IF 2^n - r * r > (r + 1) * (r + 1) - 2^n THEN r + 1 ELSE r

num_iterations(n) == IntSqrt(2^n)

\* value of classical slot c when basis state s is measured
ClbitVal(circ, c, s) ==
    LET ms == {j \in 1..Len(circ.data) :
                 circ.data[j].op = "measure" /\ circ.data[j].c = c}
    IN  IF ms = {} THEN 0
        ELSE Bit(s, circ.data[CHOOSE j \in ms : \A i \in ms : i <= j].q)

\* outcome key of get_counts(): slot nc-1 leftmost, slot 0 rightmost
Key(circ, s) ==
    [j \in 1..circ.nc |->
       IF ClbitVal(circ, circ.nc - j, s) = 1 THEN "1" ELSE "0"]

Inc(cnt, key) ==
    IF key \in DOMAIN cnt THEN [cnt EXCEPT ![key] = @ + 1]
    ELSE cnt @@ (key :> 1)

NoCounts == <<>>

\* lines 30-36: new circuit, Hadamard on every position
NewCircuit ==
    /\ pc = "call"
    /\ qc' = AppendGates(QuantumCircuit(n_qubits, n_qubits), HAll(n_qubits))
    /\ iter' = 0
    /\ pc' = "loop"
    /\ UNCHANGED <<number_to_find, n_qubits, psi, counts, shots_done, out,
                   amp0, applied>>

\* line 38: oracle(qc, range(n_qubits), number_to_find)
OracleCall ==
    /\ pc = "loop"
    /\ iter < num_iterations(n_qubits)
    /\ LET r == oracle(number_to_find, n_qubits)
       IN  /\ qc' = AppendGates(qc, r.gates)
           /\ pc' = IF r.raised THEN "failed" ELSE "diffuse"
    /\ UNCHANGED <<number_to_find, n_qubits, iter, psi, counts, shots_done,
                   out, amp0, applied>>

\* line 39: diffuser(qc, range(n_qubits)), end of one loop pass
DiffuserCall ==
    /\ pc = "diffuse"
    /\ qc' = AppendGates(qc, diffuser(n_qubits))
    /\ iter' = iter + 1
    /\ pc' = "loop"
    /\ UNCHANGED <<number_to_find, n_qubits, psi, counts, shots_done, out,
                   amp0, applied>>

\* line 42: qc.measure(range(n_qubits), range(n_qubits))
MeasureCall ==
    /\ pc = "loop"
    /\ iter >= num_iterations(n_qubits)
    /\ qc' = AppendGates(qc, MeasureAll(n_qubits))
    /\ pc' = "execute"
    /\ UNCHANGED <<number_to_find, n_qubits, iter, psi, counts, shots_done,
                   out, amp0, applied>>

\* lines 45-46: the backend takes the circuit and computes its final state
Execute ==
    /\ pc = "execute"
    /\ psi' = Run(qc.data, Ket0(qc.nq))
    /\ counts' = NoCounts
    /\ shots_done' = 0
    /\ pc' = "sampling"
    /\ UNCHANGED <<number_to_find, n_qubits, qc, iter, out, amp0, applied>>

\* line 46: one shot, any outcome of nonzero probability
Shot ==
    /\ pc = "sampling"
    /\ shots_done < Shots
    /\ \E s \in DOMAIN psi.v :
         /\ psi.v[s] # 0
         /\ counts' = Inc(counts, Key(qc, s))
    /\ shots_done' = shots_done + 1
    /\ UNCHANGED <<pc, number_to_find, n_qubits, qc, iter, psi, out, amp0,
                   applied>>

\* lines 46-49: all shots done, counts returned
GetCounts ==
    /\ pc = "sampling"
    /\ shots_done >= Shots
    /\ pc' = "returned"
    /\ UNCHANGED <<number_to_find, n_qubits, qc, iter, psi, counts,
                   shots_done, out, amp0, applied>>

(* ------------------------------ __main__ ------------------------------- *)

Inputs(n) == (0 - MaxOver)..(2^n - 1 + MaxOver)

\* lines 53-59: an integer is read, grover_search is called with n_qubits = 3
ReadInput ==
    /\ pc = "main"
    /\ \E t \in Inputs(NQubits) : number_to_find' = t
    /\ n_qubits' = NQubits
    /\ pc' = "call"
    /\ UNCHANGED <<qc, iter, psi, counts, shots_done, out, amp0, applied>>

\* line 53: int() raises ValueError on text that is no integer
ReadGarbage ==
    /\ pc = "main"
    /\ pc' = "failed"
    /\ UNCHANGED <<number_to_find, n_qubits, qc, iter, psi, counts,
                   shots_done, out, amp0, applied>>

\* lines 62-63: the result line is printed
PrintResult ==
    /\ pc = "returned"
    /\ out' = << [target |-> number_to_find, result |-> counts] >>
    /\ pc' = "done"
    /\ UNCHANGED <<number_to_find, n_qubits, qc, iter, psi, counts,
                   shots_done, amp0, applied>>

Init ==
    /\ pc = "main"
    /\ number_to_find = 0
    /\ n_qubits = NQubits
    /\ qc = QuantumCircuit(NQubits, NQubits)
    /\ iter = 0
    /\ psi = NoState
    /\ counts = NoCounts
    /\ shots_done = 0
    /\ out = <<>>
    /\ amp0 = NoState
    /\ applied = <<>>

GroverNext ==
    \/ NewCircuit
    \/ OracleCall
    \/ DiffuserCall
    \/ MeasureCall
    \/ Execute
    \/ Shot
    \/ GetCounts

Next ==
    \/ ReadInput
    \/ ReadGarbage
    \/ GroverNext
    \/ PrintResult

Spec == Init /\ [][Next]_vars

(* -------------- grover_search called with any (target, N) -------------- *)

SearchInit ==
    /\ pc = "call"
    /\ n_qubits \in MinN..MaxN
    /\ number_to_find \in Inputs(n_qubits)
    /\ qc = QuantumCircuit(n_qubits, n_qubits)
    /\ iter = 0
    /\ psi = NoState
    /\ counts = NoCounts
    /\ shots_done = 0
    /\ out = <<>>
    /\ amp0 = NoState
    /\ applied = <<>>

SearchSpec == SearchInit /\ [][GroverNext]_vars

(* ------- oracle and diffuser fragments run on an amplitude vector ------ *)

\* the state after qc.h(range(n)) on the all-zero register
Uniform(n) == Run(HAll(n), Ket0(n))

\* integer amplitude vectors with at most two nonzero entries
SparseVectors(n) ==
    {[v |-> [s \in States(n) |-> IF s = a THEN x ELSE IF s = b THEN y ELSE 0],
      k |-> 0] :
       a \in States(n), b \in States(n),
       x \in (0 - MaxAmp)..MaxAmp, y \in (0 - MaxAmp)..MaxAmp}

\* oracle(circuit, qubits, t) on a fresh fragment, then simulated
UnitOracle ==
    /\ pc = "unit"
    /\ applied = <<>>
    /\ \E t \in States(n_qubits) :
         LET r == oracle(t, n_qubits)
         IN  /\ number_to_find' = t
             /\ qc' = AppendGates(qc, r.gates)
             /\ psi' = Run(r.gates, psi)
    /\ applied' = Append(applied, "oracle")
    /\ UNCHANGED <<pc, n_qubits, iter, counts, shots_done, out, amp0>>

\* diffuser(circuit, qubits) appended to the fragment, then simulated
UnitDiffuser ==
    /\ pc = "unit"
    /\ applied \in {<<>>, <<"oracle">>, <<"diffuser">>}
    /\ qc' = AppendGates(qc, diffuser(n_qubits))
    /\ psi' = Run(diffuser(n_qubits), psi)
    /\ applied' = Append(applied, "diffuser")
    /\ UNCHANGED <<pc, number_to_find, n_qubits, iter, counts, shots_done,
                   out, amp0>>

GateInit ==
    /\ pc = "unit"
    /\ n_qubits \in MinN..MaxN
    /\ number_to_find = 0
    /\ qc = QuantumCircuit(n_qubits, n_qubits)
    /\ iter = 0
    /\ psi \in {Uniform(n_qubits)} \cup SparseVectors(n_qubits)
    /\ amp0 = psi
    /\ counts = NoCounts
    /\ shots_done = 0
    /\ out = <<>>
    /\ applied = <<>>

GateNext ==
    \/ UnitOracle
    \/ UnitDiffuser

GateSpec == GateInit /\ [][GateNext]_vars

(* ============================== claims ================================= *)

InRange(t, n) == t \in 0..(2^n - 1)

Sq(x) == x * x

\* two amplitude vectors are the same vector of amplitudes
AmpEq(a, b) == Reduce(a) = Reduce(b)

\* the first oracle call of grover_search has returned or raised
OracleCalled == pc # "call" /\ ~(pc = "loop" /\ iter = 0)

Submitted == pc \in {"sampling", "returned", "done"}

(* ------------------------------- C1 ------------------------------------ *)

\* position i of the register holds character i of the N-bit, most
\* significant bit first, encoding of t
HoldsEncoding(s, t, n) == \A i \in 0..(n - 1) : Bit(s, i) = Bit(t, n - 1 - i)

\* C1: run on the uniform superposition, the oracle's gates for a target t
\* in 0..2^N-1 negate the amplitude of the one basis state whose position i
\* holds character i of t's N-bit encoding and leave every other amplitude
\* as it was.
C1_OracleNegatesEncodedState ==
    (pc = "unit" /\ applied = <<"oracle">> /\ amp0 = Uniform(n_qubits)) =>
       /\ psi.k = amp0.k
       /\ \A s \in States(n_qubits) :
            psi.v[s] = IF HoldsEncoding(s, number_to_find, n_qubits)
                       THEN 0 - amp0.v[s]
                       ELSE amp0.v[s]

C1_Witness ==
    /\ pc = "unit"
    /\ applied = <<"oracle">>
    /\ n_qubits = NQubits
    /\ amp0 = Uniform(n_qubits)
    /\ number_to_find = 1
    /\ psi.v[4] = 0 - amp0.v[4]
    /\ psi.v[1] = amp0.v[1]

(* ------------------------------- C2 ------------------------------------ *)

Mean2(a) == 2 * SumOver(a.v, DOMAIN a.v)

\* 2*mean - old, with mean = sum / 2^n and 2^n = sqrt(2)^(2n)
InversionAboutMean(a, n) ==
    [v |-> [s \in DOMAIN a.v |-> Mean2(a) - (2^n) * a.v[s]], k |-> a.k + 2 * n]

\* old - 2*mean
NegatedInversion(a, n) ==
    [v |-> [s \in DOMAIN a.v |-> (2^n) * a.v[s] - Mean2(a)], k |-> a.k + 2 * n]

\* C2 as stated: after the diffuser's gates every amplitude is exactly
\* 2*mean - old, sign included.
C2_ExactInversionAboutMean ==
    (pc = "unit" /\ applied = <<"diffuser">>) =>
       AmpEq(psi, InversionAboutMean(amp0, n_qubits))

\* C2 amended: after the diffuser's gates every amplitude is exactly
\* old - 2*mean, the negation of the inversion about the mean.
C2_NegatedInversionAboutMean ==
    (pc = "unit" /\ applied = <<"diffuser">>) =>
       AmpEq(psi, NegatedInversion(amp0, n_qubits))

C2_Witness ==
    /\ pc = "unit"
    /\ applied = <<"diffuser">>
    /\ n_qubits = NQubits
    /\ amp0.k = 0
    /\ SumOver(amp0.v, DOMAIN amp0.v) = 2
    /\ \E s \in DOMAIN psi.v : psi.v[s] # 0 /\ amp0.v[s] = 0

(* ------------------------------- C7 ------------------------------------ *)

\* C7: the diffuser's gates applied twice in a row, no oracle in between,
\* give back the amplitude vector they started from.
C7_DiffuserTwiceIsIdentity ==
    (pc = "unit" /\ applied = <<"diffuser", "diffuser">>) => AmpEq(psi, amp0)

C7_Witness ==
    /\ pc = "unit"
    /\ applied = <<"diffuser", "diffuser">>
    /\ n_qubits = NQubits
    /\ SumOver(amp0.v, DOMAIN amp0.v) # 0
    /\ amp0 # Uniform(n_qubits)
    /\ psi = amp0

(* ------------------------------- C8 ------------------------------------ *)

\* C8: for a target in 0..2^N-1, 0 and 2^N-1 included, the encoding has
\* exactly N characters, the oracle never raises, and every gate appended
\* acts on a position in 0..N-1.
C8_EncodingFitsRegister ==
    (InRange(number_to_find, n_qubits) /\ OracleCalled) =>
       /\ Len(binary_string(number_to_find, n_qubits)) = n_qubits
       /\ pc # "failed"
       /\ \A j \in 1..Len(qc.data) :
            /\ qc.data[j].q \in 0..(n_qubits - 1)
            /\ qc.data[j].ctrl \subseteq 0..(n_qubits - 1)

C8_Witness ==
    /\ number_to_find = 0
    /\ n_qubits = NQubits
    /\ pc = "diffuse"
    /\ Len(qc.data) = NQubits + (2 * NQubits + 3)

(* ------------------------------- C9 ------------------------------------ *)

\* C9 as stated: for a target outside 0..2^N-1 the encoding has more than
\* N characters and the oracle's flip loop indexes outside the register.
C9_OutOfRangeAlwaysOverflows ==
    (~InRange(number_to_find, n_qubits) /\ OracleCalled) =>
       /\ Len(binary_string(number_to_find, n_qubits)) > n_qubits
       /\ pc = "failed"

\* C9 amended: for a target t outside 0..2^N-1 the encoding has more than N
\* characters exactly when t >= 2^N or t <= -2^(N-1); the flip loop indexes
\* outside the register exactly when the encoding has a '0' at a position
\* >= N, and it does so only after appending the flips of the positions
\* before it (nothing checks the target first).
C9_OverflowNeedsZeroBeyondRegister ==
    (~InRange(number_to_find, n_qubits) /\ OracleCalled) =>
       LET bs == binary_string(number_to_find, n_qubits)
       IN  /\ (Len(bs) > n_qubits) <=>
                 (number_to_find >= 2^n_qubits \/
                  0 - number_to_find >= 2^(n_qubits - 1))
           /\ (pc = "failed") <=>
                 (\E i \in n_qubits..(Len(bs) - 1) : bs[i + 1] = "0")
           /\ (pc = "failed") =>
                 /\ Len(qc.data) =
                      n_qubits + Cardinality({i \in 0..(n_qubits - 1) :
                                                bs[i + 1] = "0"})
                 /\ \A j \in (n_qubits + 1)..Len(qc.data) :
                      /\ qc.data[j].op = "x"
                      /\ bs[qc.data[j].q + 1] = "0"

C9_Witness ==
    /\ number_to_find = 2^NQubits
    /\ n_qubits = NQubits
    /\ pc = "failed"
    /\ Len(qc.data) = NQubits + 2

(* ------------------------------- C5 ------------------------------------ *)

RECURSIVE Repeat(_, _)
Repeat(k, gates) == IF k <= 0 THEN <<>> ELSE gates \o Repeat(k - 1, gates)

\* the truncated square root of 2^n
IsFloorSqrt(k, n) == k >= 0 /\ k * k <= 2^n /\ (k + 1) * (k + 1) > 2^n

HasMeasure == \E j \in 1..Len(qc.data) : qc.data[j].op = "measure"

C5_Circuit ==
    (InRange(number_to_find, n_qubits) /\ Submitted) =>
       \E k \in 0..(2^n_qubits) :
          /\ IsFloorSqrt(k, n_qubits)
          /\ (n_qubits = 3 => k = 2)
          /\ iter = k
          /\ Len(qc.data) >= 2 * n_qubits
          /\ \A i \in 1..n_qubits :
               /\ qc.data[i] = H(i - 1)
               /\ qc.data[Len(qc.data) - n_qubits + i] = Measure(i - 1, i - 1)
          /\ SubSeq(qc.data, n_qubits + 1, Len(qc.data) - n_qubits) =
               Repeat(k, oracle(number_to_find, n_qubits).gates
                           \o diffuser(n_qubits))

C5_MeasureLast ==
    HasMeasure => (pc \in {"execute", "sampling", "returned", "done"}
                   /\ IsFloorSqrt(iter, n_qubits))

C5_Frozen == HasMeasure => qc' = qc

\* C5: the circuit submitted for a target in 0..2^N-1 is one Hadamard per
\* position, then floor(sqrt(2^N)) times the oracle's gates followed by the
\* diffuser's, then one measurement of position i into slot i; nothing is
\* measured before the last iteration ends and nothing is appended after
\* the measurements.
C5_CircuitShape == [](C5_Circuit /\ C5_MeasureLast) /\ [][C5_Frozen]_vars

C5_Witness ==
    /\ pc = "returned"
    /\ n_qubits = NQubits
    /\ number_to_find = 6
    /\ iter = 2
    /\ Len(qc.data) = 2 * NQubits + 2 * ((2 * 1 + 3) + (4 * NQubits + 3))

(* ------------------------------- C6 ------------------------------------ *)

\* C6: for a target in 0..2^N-1 the counts returned sum to the shot count
\* asked for and every key is a string of N bits.
C6_CountsSumToShots ==
    (InRange(number_to_find, n_qubits) /\ pc = "returned") =>
       /\ SumOver(counts, DOMAIN counts) = Shots
       /\ \A key \in DOMAIN counts :
            /\ Len(key) = n_qubits
            /\ \A j \in 1..Len(key) : key[j] \in {"0", "1"}

C6_Witness ==
    /\ InRange(number_to_find, n_qubits)
    /\ n_qubits = NQubits
    /\ pc = "returned"
    /\ Cardinality(DOMAIN counts) >= 2
    /\ \E key \in DOMAIN counts : counts[key] >= 2

(* ------------------------------- C3 ------------------------------------ *)

Likeliest(a) == {s \in DOMAIN a.v : \A u \in DOMAIN a.v : Sq(a.v[u]) <= Sq(a.v[s])}

\* C3: for N = 3 and target 3 the oracle flips exactly the positions of the
\* '0' characters of "011" (position 0), 2 iterations are appended, and the
\* likeliest outcome key is "011".
C3_Target3PeaksAt011 ==
    (number_to_find = 3 /\ n_qubits = 3 /\ Submitted) =>
       /\ SubSeq(qc.data, 4, 8) = << X(0), H(2), MCX({0, 1}, 2), H(2), X(0) >>
       /\ iter = 2
       /\ {Key(qc, s) : s \in Likeliest(psi)} = { << "0", "1", "1" >> }

(* ------------------------------- C4 ------------------------------------ *)

\* C4: for N = 3 and target 5, after the 2 iterations, outcome "101" has
\* probability above 70% and above that of every other outcome.
C4_Target5Above70Percent ==
    (number_to_find = 5 /\ n_qubits = 3 /\ Submitted) =>
       /\ iter = 2
       /\ \E s \in DOMAIN psi.v :
            /\ Key(qc, s) = << "1", "0", "1" >>
            /\ 10 * Sq(psi.v[s]) >
                 7 * SumOver([u \in DOMAIN psi.v |-> Sq(psi.v[u])], DOMAIN psi.v)
            /\ \A u \in DOMAIN psi.v : u # s => Sq(psi.v[u]) < Sq(psi.v[s])

C4_Witness ==
    /\ number_to_find = 5
    /\ n_qubits = 3
    /\ pc = "done"
    /\ psi.v[5] = 11
    /\ psi.k = 7

(* ------------------------------- C10 ----------------------------------- *)

\* C10: when the integer entered lies outside 0..2^N-1 the run never gets
\* to print a result for it.
C10_OutOfRangeNeverPrints ==
    (pc # "main" /\ ~InRange(number_to_find, NQubits)) =>
       (pc # "done" /\ out = <<>>)

====
